---- MODULE Spec2Model ----
(***************************************************************************)
(* The invoice pipeline of src/ai_segments.py as a state machine.  One run *)
(* of the script is: the uploaded CSV is loaded (Init), the column mapping *)
(* is proposed (auto_map_columns), the operator's select boxes give the    *)
(* confirmed mapping, and the button runs the stages in source order:      *)
(* rename, duplicate-column removal, date parsing, validation, duplicate   *)
(* detection, anomaly detection, payment scheduling, dashboard.  A stage   *)
(* that raises ends the run in pc = "failed" with the exception in error.  *)
(*                                                                         *)
(* Text is a sequence of one-character strings, so that str.lower() is an  *)
(* operation on the characters.  A numeric CSV cell is kept as its decimal *)
(* text in hundredths (12808 is "128.08"); csv_float gives the float64     *)
(* pandas stores for it, and the validation arithmetic is IEEE-754 binary64*)
(* (round to nearest, ties to even) on those values.                       *)
(***************************************************************************)
EXTENDS Integers, Sequences, FiniteSets, TLC

(***************************************************************************)
(* Text                                                                    *)
(***************************************************************************)
UpperCase == <<"A","B","C","D","E","F","G","H","I","J","K","L","M",
               "N","O","P","Q","R","S","T","U","V","W","X","Y","Z">>

LowerCase == <<"a","b","c","d","e","f","g","h","i","j","k","l","m",
               "n","o","p","q","r","s","t","u","v","w","x","y","z">>

\* str.lower() on one character
lower_char(ch) ==
    IF \E i \in 1..Len(UpperCase) : UpperCase[i] = ch
    THEN LowerCase[CHOOSE i \in 1..Len(UpperCase) : UpperCase[i] = ch]
    ELSE ch

\* The name compared as it is written: the comparison of line 41 without lower()
lower_identity(s) == s

\* col.lower()  (line 41)
lower(s) == [i \in 1..Len(s) |-> lower_char(s[i])]

\* x in aliases, for a Python list
in_list(x, lst) == \E i \in 1..Len(lst) : lst[i] = x

\* The canonical field names, the keys of COLUMN_MAP
id_invoice == <<"i","d","_","i","n","v","o","i","c","e">>

client == <<"c","l","i","e","n","t">>

total == <<"t","o","t","a","l">>

tax == <<"t","a","x">>

issuedDate == <<"i","s","s","u","e","d","D","a","t","e">>

dueDate == <<"d","u","e","D","a","t","e">>

\* COLUMN_MAP, in declaration order (a dict keeps insertion order)
COLUMN_MAP ==
    << [key |-> id_invoice,
        aliases |-> << <<"i","n","v","o","i","c","e","_","i","d">>,
                       <<"i","n","v","o","i","c","e","_","n","o">>,
                       <<"i","n","v","_","i","d">>,
                       <<"b","i","l","l","_","n","o">> >>],
       [key |-> client,
        aliases |-> << <<"v","e","n","d","o","r">>,
                       <<"s","u","p","p","l","i","e","r">>,
                       <<"c","l","i","e","n","t","_","n","a","m","e">>,
                       <<"c","u","s","t","o","m","e","r">> >>],
       [key |-> total,
        aliases |-> << <<"a","m","o","u","n","t">>,
                       <<"t","o","t","a","l","_","a","m","o","u","n","t">>,
                       <<"i","n","v","o","i","c","e","_","v","a","l","u","e">>,
                       <<"b","i","l","l","_","a","m","o","u","n","t">> >>],
       [key |-> tax,
        aliases |-> << <<"t","a","x">>,
                       <<"g","s","t">>,
                       <<"v","a","t">>,
                       <<"t","a","x","_","a","m","o","u","n","t">> >>],
       [key |-> issuedDate,
        aliases |-> << <<"i","n","v","o","i","c","e","_","d","a","t","e">>,
                       <<"b","i","l","l","_","d","a","t","e">>,
                       <<"i","s","s","u","e","d","_","d","a","t","e">> >>],
       [key |-> dueDate,
        aliases |-> << <<"d","u","e","_","d","a","t","e">>,
                       <<"p","a","y","m","e","n","t","_","d","u","e">>,
                       <<"p","a","y","_","d","a","t","e">> >>] >>

Fields == 1..Len(COLUMN_MAP)

Keys == {COLUMN_MAP[k].key : k \in Fields}

\* No column: the empty text is never a column name read_csv produces
NoCol == <<>>

\* The inner loop without its break: a later matching column overwrites an
\* earlier one
RECURSIVE scan_back(_, _, _)
scan_back(aliases, cols, i) ==
    IF i = 0 THEN NoCol
    ELSE IF in_list(lower(cols[i]), aliases) THEN cols[i]
    ELSE scan_back(aliases, cols, i - 1)

last_match(aliases, cols) == scan_back(aliases, cols, Len(cols))

\* The inner loop of auto_map_columns (lines 40-43): the first column, in the
\* table's order, whose lower-cased name is in the alias list; the break ends
\* the scan there.
RECURSIVE scan(_, _, _)
scan(aliases, cols, i) ==
    IF i > Len(cols) THEN NoCol
    ELSE IF in_list(lower(cols[i]), aliases) THEN cols[i]
    ELSE scan(aliases, cols, i + 1)

first_match(aliases, cols) == scan(aliases, cols, 1)

\* auto_map_columns(df): the dict mapped; a key with no match is absent
auto_map_columns(cols) ==
    LET hit == {k \in Fields : first_match(COLUMN_MAP[k].aliases, cols) # NoCol}
    IN  [key \in {COLUMN_MAP[k].key : k \in hit} |->
            first_match(COLUMN_MAP[CHOOSE k \in Fields : COLUMN_MAP[k].key = key].aliases, cols)]

(***************************************************************************)
(* float64 arithmetic.  A natural number of any size is a sequence of      *)
(* limbs, least significant first, with no zero limb at the top (zero is   *)
(* the empty sequence).  A finite float64 is [sgn, m, e] with value        *)
(* sgn * m * 2^e and m of exactly MantBits bits; zero is FZero.  The       *)
(* amounts of an invoice are far from the subnormal and overflow ranges,   *)
(* which are not modelled.                                                 *)
(***************************************************************************)
Base == 2 ^ 15

MantBits == 53

RECURSIVE big_trim(_)
big_trim(a) ==
    IF Len(a) > 0 /\ a[Len(a)] = 0 THEN big_trim(SubSeq(a, 1, Len(a) - 1)) ELSE a

RECURSIVE big_of(_)
big_of(n) == IF n = 0 THEN <<>> ELSE <<n % Base>> \o big_of(n \div Base)

limb(a, i) == IF i <= Len(a) THEN a[i] ELSE 0

RECURSIVE add_from(_, _, _, _)
add_from(a, b, i, c) ==
    IF i > Len(a) /\ i > Len(b)
    THEN IF c = 0 THEN <<>> ELSE <<c>>
    ELSE LET s == limb(a, i) + limb(b, i) + c
         IN  <<s % Base>> \o add_from(a, b, i + 1, s \div Base)

big_add(a, b) == add_from(a, b, 1, 0)

RECURSIVE sub_from(_, _, _, _)
sub_from(a, b, i, br) ==
    IF i > Len(a) THEN <<>>
    ELSE LET d == a[i] - limb(b, i) - br
         IN  IF d < 0 THEN <<d + Base>> \o sub_from(a, b, i + 1, 1)
                      ELSE <<d>> \o sub_from(a, b, i + 1, 0)

\* a - b for a >= b
big_sub(a, b) == big_trim(sub_from(a, b, 1, 0))

RECURSIVE cmp_from(_, _, _)
cmp_from(a, b, i) ==
    IF i = 0 THEN 0
    ELSE IF a[i] < b[i] THEN -1
    ELSE IF a[i] > b[i] THEN 1
    ELSE cmp_from(a, b, i - 1)

\* -1, 0 or 1 as a < b, a = b, a > b
big_cmp(a, b) ==
    IF Len(a) < Len(b) THEN -1
    ELSE IF Len(a) > Len(b) THEN 1
    ELSE cmp_from(a, b, Len(a))

RECURSIVE mul_small_from(_, _, _, _)
mul_small_from(a, m, i, c) ==
    IF i > Len(a)
    THEN IF c = 0 THEN <<>> ELSE <<c>>
    ELSE LET p == a[i] * m + c
         IN  <<p % Base>> \o mul_small_from(a, m, i + 1, p \div Base)

RECURSIVE mul_from(_, _, _)
mul_from(a, b, j) ==
    IF j > Len(b) THEN <<>>
    ELSE big_add(mul_small_from(a, b[j], 1, 0), <<0>> \o mul_from(a, b, j + 1))

big_mul(a, b) == big_trim(mul_from(a, b, 1))

\* a * 2^s
big_shl(a, s) ==
    IF a = <<>> THEN <<>>
    ELSE [i \in 1..(s \div 15) |-> 0]
         \o mul_small_from(a, 2 ^ (s % 15), 1, 0)

\* Long division by a small divisor, from the top limb down: quotient q, remainder r
RECURSIVE div_from(_, _, _, _)
div_from(a, d, i, r) ==
    IF i = 0 THEN [q |-> <<>>, r |-> r]
    ELSE LET cur  == r * Base + a[i]
             rest == div_from(a, d, i - 1, cur % d)
         IN  [q |-> rest.q \o <<cur \div d>>, r |-> rest.r]

big_div_small(a, d) ==
    LET dm == div_from(a, d, Len(a), 0) IN [q |-> big_trim(dm.q), r |-> dm.r]

\* floor(a / 2^s), and whether a bit was lost
big_shr(a, s) ==
    LET drop == s \div 15
        kept == IF drop >= Len(a) THEN <<>> ELSE SubSeq(a, drop + 1, Len(a))
        dm   == big_div_small(kept, 2 ^ (s % 15))
    IN  [q |-> dm.q,
         sticky |-> dm.r # 0 \/ \E i \in 1..Len(a) : i <= drop /\ a[i] # 0]

RECURSIVE bits(_)
bits(n) == IF n = 0 THEN 0 ELSE 1 + bits(n \div 2)

big_bits(a) == IF a = <<>> THEN 0 ELSE 15 * (Len(a) - 1) + bits(a[Len(a)])

big_odd(a) == a # <<>> /\ a[1] % 2 = 1

FZero == [sgn |-> 0, m |-> <<>>, e |-> 0]

\* The float64 nearest to sgn * (n + f) * 2^e, ties to even, where 0 <= f < 1
\* and st says whether f > 0 (st only with n of more than MantBits + 1 bits).
fl_round(sgn, n, e, st) ==
    IF n = <<>> THEN FZero
    ELSE LET L == big_bits(n)
         IN  IF L <= MantBits
             THEN [sgn |-> sgn, m |-> big_shl(n, MantBits - L), e |-> e - (MantBits - L)]
             ELSE LET d     == L - MantBits
                      h     == big_shr(n, d - 1)
                      guard == big_odd(h.q)
                      q     == big_shr(h.q, 1).q
                      up    == guard /\ (h.sticky \/ st \/ big_odd(q))
                      q1    == IF up THEN big_add(q, <<1>>) ELSE q
                  IN  IF big_bits(q1) > MantBits
                      THEN [sgn |-> sgn, m |-> big_shr(q1, 1).q, e |-> e + d + 1]
                      ELSE [sgn |-> sgn, m |-> q1, e |-> e + d]

\* The float64 of a decimal text with two places: hundredths / 100, correctly
\* rounded (what read_csv stores for "128.08", and Python for the literal 0.18)
dec_float(hundredths) ==
    IF hundredths = 0 THEN FZero
    ELSE LET mag == IF hundredths < 0 THEN -hundredths ELSE hundredths
             dm  == big_div_small(big_shl(big_of(mag), 70), 100)
         IN  fl_round(IF hundredths < 0 THEN -1 ELSE 1, dm.q, -70, dm.r # 0)

\* float(n) for a Python int
int_float(n) ==
    IF n = 0 THEN FZero
    ELSE fl_round(IF n < 0 THEN -1 ELSE 1, big_of(IF n < 0 THEN -n ELSE n), 0, FALSE)

fneg(a) == [a EXCEPT !.sgn = -a.sgn]

fabs(a) == [a EXCEPT !.sgn = IF a.sgn = 0 THEN 0 ELSE 1]

\* a * b
fmul(a, b) ==
    IF a.sgn = 0 \/ b.sgn = 0 THEN FZero
    ELSE fl_round(a.sgn * b.sgn, big_mul(a.m, b.m), a.e + b.e, FALSE)

\* a + b
fadd(a, b) ==
    IF a.sgn = 0 THEN b
    ELSE IF b.sgn = 0 THEN a
    ELSE LET e == IF a.e < b.e THEN a.e ELSE b.e
             x == big_shl(a.m, a.e - e)
             y == big_shl(b.m, b.e - e)
             c == big_cmp(x, y)
         IN  IF a.sgn = b.sgn THEN fl_round(a.sgn, big_add(x, y), e, FALSE)
             ELSE IF c = 0 THEN FZero
             ELSE IF c > 0 THEN fl_round(a.sgn, big_sub(x, y), e, FALSE)
             ELSE fl_round(b.sgn, big_sub(y, x), e, FALSE)

\* a - b
fsub(a, b) == fadd(a, fneg(b))

\* a > b
fgt(a, b) ==
    LET d == fsub(a, b) IN d.sgn > 0

(***************************************************************************)
(* Tables.  A cell is null (NaN / NaT), a number (its CSV text in          *)
(* hundredths), a text, a parsed date (its day ordinal) or an integer.  A  *)
(* table is its column names and its rows, a row holding one cell per      *)
(* column, by position (pandas allows two columns of one name).            *)
(***************************************************************************)
Null == [k |-> "null", n |-> 0, s |-> ""]

Num(c) == [k |-> "num", n |-> c, s |-> ""]

Str(t) == [k |-> "str", n |-> 0, s |-> t]

Date(d) == [k |-> "date", n |-> d, s |-> ""]

Whole(i) == [k |-> "int", n |-> i, s |-> ""]

isna(c) == c.k = "null"

NoTable == [columns |-> <<>>, rows |-> <<>>]

\* name in df.columns
has_column(d, name) == \E i \in 1..Len(d.columns) : d.columns[i] = name

\* df[name], for a name that is the name of one column
column(d, name) ==
    LET i == CHOOSE i \in 1..Len(d.columns) : d.columns[i] = name
    IN  [r \in 1..Len(d.rows) |-> d.rows[r][i]]

\* The entries of seq at the positions in keep, in order
RECURSIVE pick(_, _, _)
pick(seq, keep, i) ==
    IF i > Len(seq) THEN <<>>
    ELSE (IF i \in keep THEN <<seq[i]>> ELSE <<>>) \o pick(seq, keep, i + 1)

\* df.loc[:, keep]
select_columns(d, keep) ==
    [columns |-> pick(d.columns, keep, 1),
     rows    |-> [r \in 1..Len(d.rows) |-> pick(d.rows[r], keep, 1)]]

\* The select boxes (lines 59-68): each shows the detected column, or the first
\* column when none was detected, and the operator may pick another (choice[key];
\* NoCol when the box is left alone).
selectboxes(cols, detected, choice) ==
    [key \in Keys |->
        IF choice[key] # NoCol THEN choice[key]
        ELSE IF key \in DOMAIN detected THEN detected[key]
        ELSE cols[1]]

\* The dict literal of lines 75-82, built key by key in source order: a source
\* column given for two fields keeps the value written last.
RECURSIVE rename_dict_upto(_, _)
rename_dict_upto(um, k) ==
    IF k = 0 THEN <<>>
    ELSE LET d   == rename_dict_upto(um, k - 1)
             key == COLUMN_MAP[k].key
         IN  [c \in (DOMAIN d) \cup {um[key]} |-> IF c = um[key] THEN key ELSE d[c]]

rename_dict(um) == rename_dict_upto(um, Len(COLUMN_MAP))

\* df_raw.rename(columns=...)
rename(d, names) ==
    [columns |-> [i \in 1..Len(d.columns) |->
                     IF d.columns[i] \in DOMAIN names THEN names[d.columns[i]]
                     ELSE d.columns[i]],
     rows    |-> d.rows]

\* df.loc[:, ~df.columns.duplicated()]  (line 88): the first column of each name
drop_duplicate_columns(d) ==
    select_columns(d, {i \in 1..Len(d.columns) :
                          \A j \in 1..(i - 1) : d.columns[j] # d.columns[i]})

\* The dates the date parser knows, by their text
Calendar ==
    ("2026-11-10" :> 739930) @@ ("2026-11-11" :> 739931) @@
    ("2026-11-12" :> 739932) @@ ("2026-10-01" :> 739890)

\* dropna applied after the date parsing instead of before it: a text that is
\* no date counts as null
dropna_after_parsing(d) ==
    select_columns(d, {i \in 1..Len(d.columns) :
                          \E r \in 1..Len(d.rows) :
                              ~isna(d.rows[r][i])
                              /\ ~(d.rows[r][i].k = "str" /\ d.rows[r][i].s \notin DOMAIN Calendar)})

\* df.dropna(axis=1, how='all')  (line 89): a column is dropped when every cell
\* of it is null; a text that is no date is not null here, it is not parsed yet
dropna_columns(d) ==
    select_columns(d, {i \in 1..Len(d.columns) :
                          \E r \in 1..Len(d.rows) : ~isna(d.rows[r][i])})

\* 1970-01-01, the day a number read as nanoseconds since the epoch falls on
EpochOrdinal == 719163

\* pd.to_datetime(cell, errors="coerce")
to_datetime(c) ==
    IF c.k = "str"
    THEN IF c.s \in DOMAIN Calendar THEN Date(Calendar[c.s]) ELSE Null
    ELSE IF c.k = "num"
    THEN Date(IF c.n < 0 THEN EpochOrdinal - 1 ELSE EpochOrdinal)
    ELSE c

\* df[name] = pd.to_datetime(df[name], errors="coerce"), when the column is there
parse_date_column(d, name) ==
    IF ~has_column(d, name) THEN d
    ELSE LET i == CHOOSE i \in 1..Len(d.columns) : d.columns[i] = name
         IN  [d EXCEPT !.rows = [r \in 1..Len(d.rows) |->
                                   [d.rows[r] EXCEPT ![i] = to_datetime(d.rows[r][i])]]]

\* A column pandas holds as objects: some cell is a text
is_object(col) == \E r \in 1..Len(col) : col[r].k = "str"

\* Lines 103-107 for one record; a comparison with NaN is False, so a null
\* total or tax leaves is_valid as line 103 set it
is_valid_of(t, x) ==
    LET bad_total == ~isna(t) /\ ~fgt(dec_float(t.n), FZero)
        bad_tax   == ~isna(t) /\ ~isna(x)
                     /\ fgt(fabs(fsub(dec_float(x.n), fmul(dec_float(t.n), dec_float(18)))),
                            int_float(100))
    IN  ~bad_total /\ ~bad_tax

\* duplicated with keep='first': the first record of a group is not marked
duplicated_keep_first(keys, i) == \E j \in 1..(i - 1) : keys[j] = keys[i]

\* df.duplicated(subset=[...], keep=False) for record i: marked as a repeat of
\* an earlier record (keep='first') or of a later one (keep='last'); pandas
\* takes two nulls for equal
duplicated(keys, i) ==
    \/ \E j \in 1..(i - 1) : keys[j] = keys[i]
    \/ \E j \in (i + 1)..Len(keys) : keys[j] = keys[i]

\* The k-th smallest of a sequence of numbers (np.sort)
kth(xs, k) ==
    CHOOSE v \in {xs[i] : i \in 1..Len(xs)} :
        /\ Cardinality({i \in 1..Len(xs) : xs[i] < v}) < k
        /\ k <= Cardinality({i \in 1..Len(xs) : xs[i] <= v})

\* 100 * contamination, the percentile IsolationForest.fit takes for offset_
ContaminationPct == 10

\* 100 * np.percentile(scores, 100 * contamination): linear interpolation at
\* the virtual index contamination * (n - 1)
offset_x100(scores) ==
    LET v  == ContaminationPct * (Len(scores) - 1)
        lo == kth(scores, (v \div 100) + 1)
    IN  IF v % 100 = 0 THEN 100 * lo
        ELSE 100 * lo + (v % 100) * (kth(scores, (v \div 100) + 2) - lo)

\* The threshold taken inclusively: a score equal to offset_ is an outlier too
fit_predict_inclusive(scores) ==
    [i \in 1..Len(scores) |-> IF 100 * scores[i] <= offset_x100(scores) THEN 1 ELSE 0]

\* fit_predict, then .map({1: 0, -1: 1}): a record is an outlier (-1) when its
\* score is strictly below offset_
fit_predict(scores) ==
    [i \in 1..Len(scores) |-> IF 100 * scores[i] < offset_x100(scores) THEN 1 ELSE 0]

\* (dueDate - today).dt.days: whole days, rounded down; NaT gives NaN
days_between(due, now) ==
    IF isna(due) THEN Null
    ELSE Whole(due.n - now.day - (IF now.tod > 0 THEN 1 ELSE 0))

\* The np.where without its duplicate_flag condition
payment_priority_no_duplicate(days, anom, dup, valid) ==
    IF ~isna(days) /\ days.n <= 7 /\ anom = 0 /\ valid = TRUE
    THEN "HIGH" ELSE "HOLD"

\* The np.where of lines 133-140; NaN <= 7 is False
payment_priority_of(days, anom, dup, valid) ==
    IF ~isna(days) /\ days.n <= 7 /\ anom = 0 /\ dup = 0 /\ valid = TRUE
    THEN "HIGH" ELSE "HOLD"

(***************************************************************************)
(* The run                                                                 *)
(***************************************************************************)
VARIABLES
    pc,                \* the script's position
    df_raw,            \* the uploaded table (line 51)
    choice,            \* what the operator picks in the select boxes
    today,             \* datetime.today() of the run: its day and time of day
    detected_map,      \* auto_map_columns(df_raw)
    user_map,          \* the confirmed mapping
    df,                \* the working table
    is_valid,          \* the derived columns, one entry per record
    duplicate_flag,
    anomaly,
    days_to_due,
    payment_priority,
    metrics,           \* the five dashboard counts
    error              \* the exception that ended the run

vars == <<pc, df_raw, choice, today, detected_map, user_map, df, is_valid,
          duplicate_flag, anomaly, days_to_due, payment_priority, metrics, error>>

inputs == <<df_raw, choice, today>>

derived == <<is_valid, duplicate_flag, anomaly, days_to_due, payment_priority, metrics>>

\* The state once the file is loaded
Loaded(cols, rows, ch, now) ==
    /\ pc = "loaded"
    /\ df_raw = [columns |-> cols, rows |-> rows]
    /\ choice = ch
    /\ today = now
    /\ detected_map = <<>>
    /\ user_map = <<>>
    /\ df = NoTable
    /\ is_valid = <<>>
    /\ duplicate_flag = <<>>
    /\ anomaly = <<>>
    /\ days_to_due = <<>>
    /\ payment_priority = <<>>
    /\ metrics = <<>>
    /\ error = ""

Raise(exc) == pc' = "failed" /\ error' = exc

\* detected_map = auto_map_columns(df_raw)  (line 54)
Propose ==
    /\ pc = "loaded"
    /\ detected_map' = auto_map_columns(df_raw.columns)
    /\ pc' = "mapped"
    /\ UNCHANGED <<inputs, user_map, df, derived, error>>

\* The select boxes (lines 59-68)
Select ==
    /\ pc = "mapped"
    /\ user_map' = selectboxes(df_raw.columns, detected_map, choice)
    /\ pc' = "selected"
    /\ UNCHANGED <<inputs, detected_map, df, derived, error>>

\* The button is pressed; lines 75-82
Rename ==
    /\ pc = "selected"
    /\ df' = rename(df_raw, rename_dict(user_map))
    /\ pc' = "renamed"
    /\ UNCHANGED <<inputs, detected_map, user_map, derived, error>>

\* Lines 87-89
DropColumns ==
    /\ pc = "renamed"
    /\ df' = dropna_columns(drop_duplicate_columns(df))
    /\ pc' = "cleaned"
    /\ UNCHANGED <<inputs, detected_map, user_map, derived, error>>

\* Lines 94-98
ParseDates ==
    /\ pc = "cleaned"
    /\ df' = parse_date_column(parse_date_column(df, issuedDate), dueDate)
    /\ pc' = "parsed"
    /\ UNCHANGED <<inputs, detected_map, user_map, derived, error>>

\* Lines 103-107.  df["total"] and df["tax"] raise KeyError when the column is
\* gone; a column of objects raises TypeError in the comparison (line 104) or
\* in the subtraction (line 107).
Validate ==
    /\ pc = "parsed"
    /\ IF ~has_column(df, total) THEN Raise("KeyError: 'total'") /\ is_valid' = is_valid
       ELSE IF is_object(column(df, total)) THEN Raise("TypeError") /\ is_valid' = is_valid
       ELSE IF ~has_column(df, tax) THEN Raise("KeyError: 'tax'") /\ is_valid' = is_valid
       ELSE IF is_object(column(df, tax)) THEN Raise("TypeError") /\ is_valid' = is_valid
       ELSE /\ is_valid' = [r \in 1..Len(df.rows) |->
                               is_valid_of(column(df, total)[r], column(df, tax)[r])]
            /\ pc' = "validated"
            /\ error' = error
    /\ UNCHANGED <<inputs, detected_map, user_map, df, duplicate_flag, anomaly,
                   days_to_due, payment_priority, metrics>>

\* Lines 112-118
Duplicates ==
    /\ pc = "validated"
    /\ IF ~has_column(df, client)
       THEN Raise("KeyError: 'client'") /\ duplicate_flag' = duplicate_flag
       ELSE IF ~has_column(df, id_invoice)
       THEN Raise("KeyError: 'id_invoice'") /\ duplicate_flag' = duplicate_flag
       ELSE LET keys == [r \in 1..Len(df.rows) |->
                           <<column(df, client)[r], column(df, id_invoice)[r],
                             column(df, total)[r]>>]
            IN  /\ duplicate_flag' = [r \in 1..Len(df.rows) |->
                                         IF duplicated(keys, r) THEN 1 ELSE 0]
                /\ pc' = "flagged"
                /\ error' = error
    /\ UNCHANGED <<inputs, detected_map, user_map, df, is_valid, anomaly,
                   days_to_due, payment_priority, metrics>>

\* The number of score levels the forest is given to tell amounts apart
MaxScore == 3

\* Lines 123-125.  The forest's score of a record depends on its amount alone,
\* so equal amounts score equally; which amounts score lower is the forest's
\* (seeded) choice and is left open here.  With one or two records every tree
\* isolates each record at the same depth and all scores are equal.  A NaN
\* amount is rejected (ValueError) by the scikit-learn builds that do not
\* accept missing values, and scored like any other amount by the others.
Anomaly ==
    /\ pc = "flagged"
    /\ \E rejects_nan \in BOOLEAN :
       \E score \in [{column(df, total)[r] : r \in 1..Len(df.rows)} -> 1..MaxScore] :
          IF rejects_nan /\ \E r \in 1..Len(df.rows) : isna(column(df, total)[r])
          THEN Raise("ValueError") /\ anomaly' = anomaly
          ELSE /\ Len(df.rows) <= 2 => \A a, b \in DOMAIN score : score[a] = score[b]
               /\ anomaly' = fit_predict([r \in 1..Len(df.rows) |->
                                             score[column(df, total)[r]]])
               /\ pc' = "scored"
               /\ error' = error
    /\ UNCHANGED <<inputs, detected_map, user_map, df, is_valid, duplicate_flag,
                   days_to_due, payment_priority, metrics>>

\* Lines 130-140
Schedule ==
    /\ pc = "scored"
    /\ IF ~has_column(df, dueDate)
       THEN /\ Raise("KeyError: 'dueDate'")
            /\ UNCHANGED <<days_to_due, payment_priority>>
       ELSE LET days == [r \in 1..Len(df.rows) |->
                            days_between(column(df, dueDate)[r], today)]
            IN  /\ days_to_due' = days
                /\ payment_priority' =
                       [r \in 1..Len(df.rows) |->
                           payment_priority_of(days[r], anomaly[r],
                                               duplicate_flag[r], is_valid[r])]
                /\ pc' = "scheduled"
                /\ error' = error
    /\ UNCHANGED <<inputs, detected_map, user_map, df, is_valid, duplicate_flag,
                   anomaly, metrics>>

count(xs, v) == Cardinality({i \in 1..Len(xs) : xs[i] = v})

\* Lines 145-193: the dashboard counts; the table shown is df with the derived
\* columns
Report ==
    /\ pc = "scheduled"
    /\ metrics' = [total_invoices |-> Len(df.rows),
                   valid          |-> count(is_valid, TRUE),
                   duplicates     |-> count(duplicate_flag, 1),
                   anomalies      |-> count(anomaly, 1),
                   ready          |-> count(payment_priority, "HIGH")]
    /\ pc' = "done"
    /\ UNCHANGED <<inputs, detected_map, user_map, df, is_valid, duplicate_flag,
                   anomaly, days_to_due, payment_priority, error>>

Next ==
    \/ Propose
    \/ Select
    \/ Rename
    \/ DropColumns
    \/ ParseDates
    \/ Validate
    \/ Duplicates
    \/ Anomaly
    \/ Schedule
    \/ Report

(***************************************************************************)
(* Uploaded files.  Each specification loads one family of CSV files and   *)
(* then runs the script on it.                                             *)
(***************************************************************************)
MaxRows == 3

MaxValRows == 2

MaxBatch == 11

MaxCols == 3

MaxPicks == 2

\* A header every field of which is detected
GoodColumns ==
    << <<"i","n","v","o","i","c","e","_","n","o">>,
       <<"V","e","n","d","o","r">>,
       <<"A","m","o","u","n","t">>,
       <<"G","S","T">>,
       <<"B","i","l","l","_","D","a","t","e">>,
       <<"d","u","e","_","d","a","t","e">> >>

\* The select boxes left as shown
NoChoice == [key \in Keys |-> NoCol]

\* The runs are made on 2026-11-03, at midnight (tod = 0) or later in the day
Clocks == {[day |-> 739923, tod |-> t] : t \in {0, 1}}

\* All sequences of 1 to n elements of S
SeqsUpTo(S, n) == UNION {[1..k -> S] : k \in 1..n}

\* Records in the order of GoodColumns: invoice, client, amount, tax, issued, due
SampleRecords ==
    { <<Str("A1"), Str("Acme"), Num(50000), Num(9000),  Str("2026-10-01"), Str("2026-11-11")>>,
      <<Str("A2"), Str("Acme"), Num(50000), Num(9000),  Str("2026-10-01"), Str("2026-11-12")>>,
      <<Str("A1"), Str("Bolt"), Num(50000), Num(30000), Str("n/a"),        Str("2026-11-11")>>,
      <<Str("A1"), Str("Acme"), Num(70000), Num(9000),  Str("2026-10-01"), Str("2026-11-10")>>,
      <<Str("A1"), Str("Acme"), Num(50000), Num(9000),  Str("2026-10-01"), Str("soon")>>,
      <<Str("A2"), Str("Bolt"), Num(70000), Num(12600), Null,              Null>>,
      <<Str("A2"), Str("Acme"), Null,       Num(9000),  Str("2026-10-01"), Str("2026-11-11")>>,
      <<Null,      Str("Acme"), Num(50000), Null,       Str("13/13/2026"), Str("2026-11-11")>> }

\* Batches of invoices under a detected header
Init ==
    \E rows \in SeqsUpTo(SampleRecords, MaxRows), now \in Clocks :
        Loaded(GoodColumns, rows, NoChoice, now)

Spec == Init /\ [][Next]_vars

\* Amounts and taxes around the validation rule's boundaries
ValTotals == {Num(-100), Num(0), Num(15600), Num(50000), Null, Str("abc")}

ValTaxes == {Num(12808), Num(19000), Num(19001), Num(-1000), Num(-1001), Null, Str("n/a")}

InitVal ==
    \E rows \in SeqsUpTo({<<Str("A1"), Str("Acme"), t, x, Str("2026-10-01"), Str("2026-11-11")>> :
                             t \in ValTotals, x \in ValTaxes}, MaxValRows) :
        Loaded(GoodColumns, rows, NoChoice, [day |-> 739923, tod |-> 1])

SpecVal == InitVal /\ [][Next]_vars

\* Non-decreasing sequences: one per multiset of amounts
Sorted(xs) == \A i \in 1..(Len(xs) - 1) : xs[i] <= xs[i + 1]

\* Batches that differ in their amounts only
InitAnomaly ==
    \E amounts \in {a \in SeqsUpTo({50000, 70000, 100000000}, MaxBatch) : Sorted(a)} :
        Loaded(GoodColumns,
               [r \in 1..Len(amounts) |->
                   <<Str("A1"), Str("Acme"), Num(amounts[r]), Num(9000),
                     Str("2026-10-01"), Str("2026-11-11")>>],
               NoChoice, [day |-> 739923, tod |-> 1])

SpecAnomaly == InitAnomaly /\ [][Next]_vars

\* One batch with a seventh column, and the operator changing up to MaxPicks boxes
MappingColumns == GoodColumns \o << <<"n","o","t","e","s">> >>

MappingRows ==
    << <<Str("A1"), Str("Acme"), Num(50000), Num(9000), Str("2026-10-01"),
         Str("2026-11-11"), Str("urgent")>>,
       <<Str("A2"), Str("Bolt"), Num(70000), Num(12600), Str("2026-10-01"),
         Str("2026-11-12"), Null>> >>

InitMapping ==
    \E ch \in [Keys -> {NoCol} \cup {MappingColumns[i] : i \in 1..Len(MappingColumns)}] :
        /\ Cardinality({key \in Keys : ch[key] # NoCol}) <= MaxPicks
        /\ Loaded(MappingColumns, MappingRows, ch, [day |-> 739923, tod |-> 1])

SpecMapping == InitMapping /\ [][Next]_vars

\* Headers: the one of the mapping-stability example, a header of aliases, and
\* every header of up to MaxCols distinct names out of HeaderPool
StabilityColumns ==
    << <<"I","n","v","o","i","c","e"," ","N","o">>,
       <<"V","e","n","d","o","r">>,
       <<"A","m","o","u","n","t">>,
       <<"G","S","T">>,
       <<"B","i","l","l"," ","D","a","t","e">>,
       <<"D","u","e"," ","D","a","t","e">> >>

HeaderPool ==
    { <<"V","e","n","d","o","r">>,
      <<"S","U","P","P","L","I","E","R">>,
      <<"c","l","i","e","n","t">>,
      <<"A","m","o","u","n","t">>,
      <<"t","o","t","a","l">>,
      <<"T","a","x">>,
      <<"I","n","v","o","i","c","e"," ","N","o">>,
      <<"d","u","e","_","d","a","t","e">> }

Headers ==
    {StabilityColumns, GoodColumns}
    \cup {h \in SeqsUpTo(HeaderPool, MaxCols) :
             \A i, j \in 1..Len(h) : i # j => h[i] # h[j]}

\* What a column of a given name holds in these files
SampleCell(name, r) ==
    IF in_list(lower(name), COLUMN_MAP[3].aliases) \/ name = total THEN Num(50000)
    ELSE IF in_list(lower(name), COLUMN_MAP[4].aliases) THEN Num(9000)
    ELSE IF in_list(lower(name), COLUMN_MAP[5].aliases \o COLUMN_MAP[6].aliases)
    THEN Str("2026-11-11")
    ELSE Str(IF r = 1 THEN "A1" ELSE "A2")

InitPropose ==
    \E h \in Headers, n \in 1..2 :
        Loaded(h, [r \in 1..n |-> [i \in 1..Len(h) |-> SampleCell(h[i], r)]],
               NoChoice, [day |-> 739923, tod |-> 1])

SpecPropose == InitPropose /\ [][Next]_vars

(***************************************************************************)
(* Properties                                                              *)
(***************************************************************************)
Records == 1..Len(df.rows)

\* A date text the parser cannot read
Unparseable(c) == c.k = "str" /\ c.s \notin DOMAIN Calendar

\* C1: in the table of a completed run, a record is HIGH exactly when its
\* days_to_due is a number <= 7, it is valid, not a duplicate and not an
\* anomaly; every other record is HOLD, and a record with a null dueDate has a
\* null days_to_due and is HOLD.
C1_PriorityIffAllFour ==
    pc = "done" =>
        \A r \in Records :
            /\ payment_priority[r] \in {"HIGH", "HOLD"}
            /\ payment_priority[r] = "HIGH" <=>
                   /\ days_to_due[r].k = "int"
                   /\ days_to_due[r].n <= 7
                   /\ is_valid[r] = TRUE
                   /\ duplicate_flag[r] = 0
                   /\ anomaly[r] = 0
            /\ isna(column(df, dueDate)[r]) =>
                   isna(days_to_due[r]) /\ payment_priority[r] = "HOLD"

\* A completed run with a HIGH record, a record held although it is due within
\* 7 days, and a record held for its null due date
C1_Witness ==
    /\ pc = "done"
    /\ \E r \in Records : payment_priority[r] = "HIGH"
    /\ \E r \in Records : payment_priority[r] = "HOLD" /\ days_to_due[r].k = "int"
                          /\ days_to_due[r].n <= 7 /\ duplicate_flag[r] = 1
    /\ \E r \in Records : isna(days_to_due[r])

SameKey(r, q) ==
    /\ column(df, client)[r] = column(df, client)[q]
    /\ column(df, id_invoice)[r] = column(df, id_invoice)[q]
    /\ column(df, total)[r] = column(df, total)[q]

\* C2: once duplicate detection has run, a record is flagged exactly when some
\* other record has the same (client, id_invoice, total), two nulls being equal;
\* so every member of a group of two or more is flagged, the first included,
\* and a record with a key of its own is not.
C2_FlaggedIffKeyShared ==
    duplicate_flag # <<>> =>
        \A r \in Records :
            duplicate_flag[r] = 1 <=> \E q \in Records : q # r /\ SameKey(r, q)

\* The first two records share a key and are both flagged; a third is not
C2_Witness ==
    /\ Len(duplicate_flag) = 3
    /\ SameKey(1, 2)
    /\ duplicate_flag = <<1, 1, 0>>

\* C3 (as claimed): for a record with numeric total and tax, is_valid is true
\* exactly when total > 0 and |tax - total * 0.18| <= 100, the boundary
\* included.  The amounts are in hundredths, so the difference is taken in
\* ten-thousandths: |100 * tax - 18 * total| <= 1000000.
C3_ValidIffWithinTolerance ==
    is_valid # <<>> =>
        \A r \in Records :
            LET t == column(df, total)[r]
                x == column(df, tax)[r]
                d == 100 * x.n - 18 * t.n
            IN  (t.k = "num" /\ x.k = "num") =>
                    (is_valid[r] = TRUE <=> (t.n > 0 /\ d <= 1000000 /\ -d <= 1000000))

\* C4 (as claimed): a record whose total or tax is null is marked invalid.
C4_NullAmountInvalid ==
    is_valid # <<>> =>
        \A r \in Records :
            (isna(column(df, total)[r]) \/ isna(column(df, tax)[r])) => is_valid[r] = FALSE

\* Two fields confirmed to one source column
Collide(k, j) == k # j /\ user_map[COLUMN_MAP[k].key] = user_map[COLUMN_MAP[j].key]

\* C5 (as claimed): when two fields are confirmed to the same source column, the
\* run does not fail, and the renamed table gives that column the name of the
\* first-declared of the fields confirmed to it.
C5_FirstDeclaredWinsAndCompletes ==
    (user_map # <<>> /\ \E k, j \in Fields : Collide(k, j)) =>
        /\ pc # "failed"
        /\ pc = "renamed" =>
               \A k \in Fields : \A i \in 1..Len(df_raw.columns) :
                   (/\ df_raw.columns[i] = user_map[COLUMN_MAP[k].key]
                    /\ \A j \in 1..(k - 1) : ~Collide(k, j))
                   => df.columns[i] = COLUMN_MAP[k].key

\* C6 (as claimed): a record whose total or tax is a text does not stop the
\* batch: no TypeError ends the run, and validation marks the record invalid.
C6_NonNumericMarkedInvalid ==
    /\ error # "TypeError"
    /\ is_valid # <<>> =>
           \A r \in Records :
               (column(df, total)[r].k = "str" \/ column(df, tax)[r].k = "str")
               => is_valid[r] = FALSE

\* round(num / den) as Python rounds: to the nearest integer, a half to even
PyRound(num, den) ==
    LET q == num \div den
        r == 2 * (num % den)
    IN  IF r < den THEN q
        ELSE IF r > den THEN q + 1
        ELSE IF q % 2 = 0 THEN q ELSE q + 1

AllAmountsEqual == \A r, q \in Records : column(df, total)[r] = column(df, total)[q]

\* C7 (as claimed): the number of records flagged as anomalies is exactly
\* round(contamination * n), whatever the amounts.
C7_ExactBudget ==
    anomaly # <<>> =>
        count(anomaly, 1) = PyRound(ContaminationPct * Len(anomaly), 100)

\* C7 (amended): the flagged records are those scoring strictly below the
\* contamination percentile of the scores, so at most
\* floor(contamination * (n - 1)) + 1 records are flagged, and none when all
\* amounts are equal.
C7_AtMostBudget ==
    anomaly # <<>> =>
        /\ 100 * count(anomaly, 1) <= ContaminationPct * (Len(anomaly) - 1) + 100
        /\ AllAmountsEqual => count(anomaly, 1) = 0

\* Ten records, nine amounts alike and one apart, the one apart flagged alone
C7_Witness ==
    /\ Len(anomaly) = 10
    /\ \A r \in 1..9 : column(df, total)[r] = Num(50000) /\ anomaly[r] = 0
    /\ column(df, total)[10] = Num(100000000) /\ anomaly[10] = 1

\* C8 (as claimed): for the header "Invoice No", "Vendor", "Amount", "GST",
\* "Bill Date", "Due Date" the proposal maps all six fields.
C8_AllSixMapped ==
    (df_raw.columns = StabilityColumns /\ pc # "loaded") =>
        detected_map = [key \in Keys |->
                           StabilityColumns[CHOOSE k \in Fields : COLUMN_MAP[k].key = key]]

\* C8 (amended): for that header the proposal maps client to "Vendor", total
\* to "Amount" and tax to "GST", and leaves id_invoice, issuedDate and dueDate
\* unmapped ("invoice no", "bill date", "due date" are no aliases).
C8_ThreeMapped ==
    (df_raw.columns = StabilityColumns /\ pc # "loaded") =>
        /\ DOMAIN detected_map = {client, total, tax}
        /\ detected_map[client] = StabilityColumns[2]
        /\ detected_map[total] = StabilityColumns[3]
        /\ detected_map[tax] = StabilityColumns[4]

C8_Witness == df_raw.columns = StabilityColumns /\ pc = "mapped"

\* The proposal as the claim words it: per field, the first column in the
\* table's order among the matching ones, and no entry when none matches
FirstOfMatching(cols, Matches(_, _)) ==
    \A k \in Fields :
        LET key == COLUMN_MAP[k].key
            hit == {i \in 1..Len(cols) : Matches(k, cols[i])}
        IN  IF hit = {} THEN key \notin DOMAIN detected_map'
            ELSE /\ key \in DOMAIN detected_map'
                 /\ detected_map'[key] = cols[CHOOSE i \in hit : \A j \in hit : i <= j]

AliasOrCanonical(k, col) ==
    in_list(lower(col), COLUMN_MAP[k].aliases) \/ lower(col) = COLUMN_MAP[k].key

AliasOnly(k, col) ==
    \E a \in {COLUMN_MAP[k].aliases[i] : i \in 1..Len(COLUMN_MAP[k].aliases)} :
        /\ Len(a) = Len(col)
        /\ \A i \in 1..Len(a) : a[i] = lower_char(col[i])

\* C9 (as claimed): the proposal selects, per field, the first column whose
\* lower-cased name is in the alias set or equals the canonical name, leaves a
\* field without one unmapped, and changes nothing else.
C9_FirstAliasOrCanonical ==
    [][pc = "loaded" =>
          /\ FirstOfMatching(df_raw.columns, AliasOrCanonical)
          /\ UNCHANGED <<df_raw, choice, today, df>>]_vars

\* C9 (amended): the same with the alias set alone: a column named as the
\* canonical field is selected only where that name is one of the aliases.
C9_FirstAlias ==
    [][pc = "loaded" =>
          /\ FirstOfMatching(df_raw.columns, AliasOnly)
          /\ UNCHANGED <<df_raw, choice, today, df>>]_vars

\* A proposal over a header with two aliases of client ("Vendor" after
\* "SUPPLIER") and a column named "client"
C9_Witness ==
    /\ pc = "mapped"
    /\ Len(df_raw.columns) = 3
    /\ df_raw.columns[1] = client
    /\ lower(df_raw.columns[2]) = COLUMN_MAP[2].aliases[2]
    /\ lower(df_raw.columns[3]) = COLUMN_MAP[2].aliases[1]
    /\ detected_map = (client :> df_raw.columns[2])

\* C10: date texts that cannot be parsed, in any number of records, do not end
\* the run and drop no record: each becomes null in its record, the run does
\* not fail for its dueDate, and a completed run has one record per input
\* record, with a null days_to_due and HOLD where dueDate is null.
C10_BadDatesAbsorbed ==
    LET raw_due    == [r \in 1..Len(df_raw.rows) |-> df_raw.rows[r][6]]
        raw_issued == [r \in 1..Len(df_raw.rows) |-> df_raw.rows[r][5]]
        parsed     == pc \notin {"loaded", "mapped", "selected", "renamed", "cleaned"}
    IN  /\ df # NoTable => Len(df.rows) = Len(df_raw.rows)
        /\ (\E r \in 1..Len(raw_due) : Unparseable(raw_due[r])) =>
               /\ error # "KeyError: 'dueDate'"
               /\ pc \notin {"loaded", "mapped", "selected"} => has_column(df, dueDate)
        /\ parsed =>
               \A r \in Records :
                   /\ (has_column(df, dueDate) /\ Unparseable(raw_due[r]))
                          => isna(column(df, dueDate)[r])
                   /\ (has_column(df, issuedDate) /\ Unparseable(raw_issued[r]))
                          => isna(column(df, issuedDate)[r])
        /\ pc = "done" =>
               /\ Len(payment_priority) = Len(df_raw.rows)
               /\ Len(days_to_due) = Len(df_raw.rows)
               /\ \A r \in Records :
                      isna(column(df, dueDate)[r]) =>
                          isna(days_to_due[r]) /\ payment_priority[r] = "HOLD"

\* A completed run of three records, none of whose due dates could be parsed
C10_Witness ==
    /\ pc = "done"
    /\ Len(df_raw.rows) = 3
    /\ \A r \in 1..3 : Unparseable(df_raw.rows[r][6])
    /\ \A r \in 1..3 : isna(days_to_due[r]) /\ payment_priority[r] = "HOLD"

====
